---- MODULE Spec2Model ----
(***************************************************************************)
(* Model of scales.py: the 12 notes, the two modes, the 24 scales, their   *)
(* spellings, the thumb convenience map of each hand, the 7 rotations of   *)
(* the base fingering, their filtering and their preference order.         *)
(*                                                                         *)
(* Tuples of the source are sequences here; Python index k is TLA+ index   *)
(* k + 1.  A note name is the sequence of its symbols (base name, then one *)
(* symbol per alteration); the sharp and flat symbols are written "#" and  *)
(* "b", and the accented note name is written "Re".  A fingering string is *)
(* built by concatenation as the source builds it.                         *)
(***************************************************************************)
EXTENDS Integers, Sequences, FiniteSets, TLC

\* A caller hands Note(rank) a rank of 0..11 or up to RankMargin beyond,
\* on either side.
RankMargin == 2
\* A caller hands Mode(index) an index of 0..1 or up to IndexMargin beyond,
\* on either side.
IndexMargin == 3

Abs(x) == IF x < 0 THEN -x ELSE x

Reverse(s) == [k \in 1..Len(s) |-> s[Len(s) + 1 - k]]

\* Python's sym * n, as a tuple of n symbols
Repeat(sym, n) == [k \in 1..n |-> sym]

\* Python's `sub in s`, s and sub being sequences of symbols
Contains(s, sub) ==
    \E k \in 0..(Len(s) - Len(sub)) : SubSeq(s, k + 1, k + Len(sub)) = sub

RECURSIVE Join(_)
Join(strs) == IF strs = <<>> THEN "" ELSE Head(strs) \o Join(Tail(strs))

(***************************************************************************)
(* class Note                                                              *)
(***************************************************************************)
note_names == <<"Do", "Re", "Mi", "Fa", "Sol", "La", "Si">>

sharp_sym == "#"
flat_sym == "b"

white_keys == <<0, 2, 4, 5, 7, 9, 11>>

\* position (1-based) of a white key in white_keys; white_keys.index + 1
white_index(w) == CHOOSE k \in 1..7 : white_keys[k] = w

white_names(w) == note_names[white_index(w)]

Note_each_unwrapped(stride) == [n \in 1..12 |-> (n - 1) * stride]

Note_each(stride) == [n \in 1..12 |-> ((n - 1) * stride) % 12]

is_black(rank) == rank \notin {white_keys[k] : k \in 1..7}

whites_from(from_note) ==
    LET i == white_index(from_note) - 1
    IN  SubSeq(white_keys, i + 1, 7) \o SubSeq(white_keys, 1, i)

\* the for loop of closest_white_keys, at position k of white_keys
RECURSIVE closest_loop(_, _, _)
closest_loop(rank, k, prv) ==
    IF k > 7 THEN <<>>  \* the loop ends without a return: None
    ELSE LET cur == white_keys[k]
         IN  IF cur = rank THEN <<cur>>
             ELSE IF cur > rank THEN <<prv, cur>>
             ELSE closest_loop(rank, k + 1, cur)

closest_white_keys(rank) == closest_loop(rank, 1, -1)

\* a name is the sequence of its symbols: the base name, then the alterations
name_with_base_white(rank, base_white) ==
    LET base_name == white_names(base_white)
        d0 == (rank - base_white) % 12
        distance == IF d0 >= 6 THEN d0 - 12 ELSE d0
        alter == IF distance > 0 THEN Repeat(sharp_sym, distance)
                 ELSE IF distance < 0 THEN Repeat(flat_sym, Abs(distance))
                 ELSE <<>>
    IN  <<base_name>> \o alter

Note_add(rank, half_steps) == (rank + half_steps) % 12

(***************************************************************************)
(* class Mode                                                              *)
(***************************************************************************)
names == <<"Majeur", "Mineur">>

intervals_list == << <<2, 2, 1, 2, 2, 2, 1>>,
                     <<2, 1, 2, 2, 1, 3, 1>> >>

Mode_each == [n \in 1..Len(intervals_list) |-> n - 1]

\* Python tuple indexing t[index]: negative indexes count from the end,
\* anything outside -len..len-1 raises IndexError
InRange(t, index) == index >= -Len(t) /\ index < Len(t)
At(t, index) == IF index < 0 THEN t[Len(t) + index + 1] ELSE t[index + 1]

(***************************************************************************)
(* class ScaleThumbMap                                                     *)
(***************************************************************************)
c_major_thumb == <<TRUE, FALSE, FALSE, TRUE, FALSE, FALSE, FALSE, TRUE>>

symmetry(right_hand, l) == IF right_hand THEN l ELSE Reverse(l)

score_long(note, prev) ==
    IF is_black(note) THEN -2
    ELSE LET d0 == Abs(note - prev)
             dist == IF d0 > 6 THEN 12 - d0 ELSE d0
         IN  IF dist > 3 THEN -1
             ELSE IF is_black(prev) THEN 1
             ELSE 0

score(note, prev) ==
    IF is_black(note) THEN -2
    ELSE LET d0 == Abs(note - prev)
             dist == IF d0 > 6 THEN 12 - d0 ELSE d0
         IN  IF dist > 2 THEN -1
             ELSE IF is_black(prev) THEN 1
             ELSE 0

\* a map is [right_hand, notes, scores]; scores[k] = <<thumb in C major, score>>
ScaleThumbMap_next(scale_8_notes, right_hand) ==
    LET notes == symmetry(right_hand, scale_8_notes)
        scores == [k \in 1..8 |->
                      score(notes[k], notes[IF k = 8 THEN 1 ELSE k + 1])]
    IN  [right_hand |-> right_hand,
         notes |-> notes,
         scores |-> [k \in 1..8 |-> <<c_major_thumb[k], scores[k]>>]]

ScaleThumbMap(scale_8_notes, right_hand) ==
    LET notes == symmetry(right_hand, scale_8_notes)
        \* Python's notes[i - 1] with i = 0 is the last note
        scores == [k \in 1..8 |->
                      score(notes[k], notes[IF k = 1 THEN 8 ELSE k - 1])]
    IN  [right_hand |-> right_hand,
         notes |-> notes,
         scores |-> [k \in 1..8 |-> <<c_major_thumb[k], scores[k]>>]]

(***************************************************************************)
(* class ScaleFingering                                                    *)
(***************************************************************************)
base == <<1, 2, 3, 1, 2, 3, 4>>

\* tuple(s for f, s in zip(fingers, scores) if f == 1), from position k on
RECURSIVE thumbs_of(_, _, _)
thumbs_of(fingers, scores, k) ==
    IF k > Len(fingers) \/ k > Len(scores) THEN <<>>
    ELSE (IF fingers[k] = 1 THEN <<scores[k]>> ELSE <<>>)
         \o thumbs_of(fingers, scores, k + 1)

fingers_repeat(i) ==
    LET rot == SubSeq(base, i + 1, 7) \o SubSeq(base, 1, i)
    IN  Append(rot, rot[1])

fingers_of(i) ==
    LET rot == SubSeq(base, i + 1, 7) \o SubSeq(base, 1, i)
    IN  Append(rot, IF rot[7] = 4 THEN 5 ELSE rot[1])

\* a fingering is [i, right_hand, fingers, thumb_scores]
ScaleFingering(thumb_map, i) ==
    LET fingers == fingers_of(i)
    IN  [i |-> i,
         right_hand |-> thumb_map.right_hand,
         fingers |-> fingers,
         thumb_scores |-> thumbs_of(fingers, thumb_map.scores, 1)]

digit(f) == <<"1", "2", "3", "4", "5">>[f]

str(f) == Join(symmetry(f.right_hand, [k \in 1..8 |-> digit(f.fingers[k])]))

ScaleFingering_each(thumb_map) == [n \in 1..7 |-> ScaleFingering(thumb_map, n - 1)]

always_acceptable(f) == TRUE

ends_with_some_canonical(f) ==
    \E k \in 1..Len(f.thumb_scores) : f.thumb_scores[k][1]

is_acceptable(f) ==
    ~ \E k \in 1..Len(f.thumb_scores) : f.thumb_scores[k][2] = -2

ends_with_pinky(f) ==
    \A k \in 1..Len(f.thumb_scores) : f.thumb_scores[k][1]

starts_with_thumb(f) == f.fingers[1] = 1

has_no_long_passing(f) ==
    ~ \E k \in 1..Len(f.thumb_scores) : f.thumb_scores[k][2] = -1

nb_black_passings(f) ==
    Cardinality({k \in 1..Len(f.thumb_scores) : f.thumb_scores[k][2] = 1})

\* Python's bool is an int: False = 0, True = 1
int(b) == IF b THEN 1 ELSE 0

\* the criteria of compare, in order: <<name, desirability>>
criteria == << <<"ends_with_pinky", 1>>,
               <<"starts_with_thumb", 1>>,
               <<"has_no_long_passing", 1>>,
               <<"nb_black_passings", 1>> >>

\* getattr(f, name)()
getattr(f, name) ==
    CASE name = "ends_with_pinky" -> int(ends_with_pinky(f))
      [] name = "starts_with_thumb" -> int(starts_with_thumb(f))
      [] name = "has_no_long_passing" -> int(has_no_long_passing(f))
      [] name = "nb_black_passings" -> nb_black_passings(f)

comp_greater_only(s, o, desirability) == int(s > o) * desirability

comp(s, o, desirability) == (int(s > o) - int(s < o)) * desirability

\* the for loop of compare, from criterion k on
RECURSIVE compare_loop(_, _, _, _)
compare_loop(crit, self, other, k) ==
    IF k > Len(crit) THEN <<0, "">>
    ELSE LET name == crit[k][1]
             c == comp(getattr(self, name), getattr(other, name), crit[k][2])
         IN  IF c # 0 THEN <<c, name>>
             ELSE compare_loop(crit, self, other, k + 1)

compare_passing_first(self, other) ==
    compare_loop(<<criteria[3], criteria[1], criteria[2], criteria[4]>>,
                 self, other, 1)

compare(self, other) == compare_loop(criteria, self, other, 1)

lt_not_preferred(self, other) == compare(self, other)[1] < 0

__lt__(self, other) == compare(self, other)[1] > 0

\* sorted(): the binary insertion sort of list.sort, which only uses __lt__;
\* bisect finds in l[lo..hi-1] (Python indexes) the place of pivot
RECURSIVE bisect(_, _, _, _)
bisect(l, pivot, lo, hi) ==
    IF lo >= hi THEN lo
    ELSE LET p == lo + ((hi - lo) \div 2)
         IN  IF __lt__(pivot, l[p + 1]) THEN bisect(l, pivot, lo, p)
             ELSE bisect(l, pivot, p + 1, hi)

RECURSIVE binarysort(_, _)
binarysort(done, todo) ==
    IF todo = <<>> THEN done
    ELSE LET pivot == Head(todo)
             at == bisect(done, pivot, 0, Len(done))
         IN  binarysort(SubSeq(done, 1, at) \o <<pivot>>
                            \o SubSeq(done, at + 1, Len(done)),
                        Tail(todo))

sorted(l) == binarysort(<<>>, l)

RECURSIVE filter_acceptable(_)
filter_acceptable(fs) ==
    IF fs = <<>> THEN <<>>
    ELSE (IF is_acceptable(Head(fs)) THEN <<Head(fs)>> ELSE <<>>)
         \o filter_acceptable(Tail(fs))

(***************************************************************************)
(* class Scale                                                             *)
(***************************************************************************)
\* the loop of Scale.__init__ that appends one note per interval
RECURSIVE notes_loop(_, _, _)
notes_loop(notes, intervals, k) ==
    IF k > Len(intervals) THEN notes
    ELSE notes_loop(Append(notes, Note_add(notes[Len(notes)], intervals[k])),
                    intervals, k + 1)

\* a scale is [tonic, mode, intervals, notes]: the rank of its tonic, the
\* index and the intervals of its mode, the ranks of its 8 notes
Scale(tonic, index) ==
    LET intervals == At(intervals_list, index)
    IN  [tonic |-> tonic, mode |-> index, intervals |-> intervals,
         notes |-> notes_loop(<<tonic>>, intervals, 1)]

maps(scale, right_hand) == ScaleThumbMap(scale.notes, right_hand)

fingerings(scale, right_hand) ==
    sorted(filter_acceptable(ScaleFingering_each(maps(scale, right_hand))))

\* the (tonic, mode) arguments of the scales Scale.each yields, in order
each_major_first(circle_of_fifths) ==
    LET nm == Len(Mode_each)
        stride == IF circle_of_fifths THEN 7 ELSE 1
    IN  [n \in 1..(12 * nm) |->
            LET note == Note_each(stride)[((n - 1) % 12) + 1]
                i == (n - 1) \div 12
            IN  <<IF circle_of_fifths /\ i # 0 THEN Note_add(note, -3) ELSE note,
                  Mode_each[i + 1]>>]

Scale_each(circle_of_fifths) ==
    LET nm == Len(Mode_each)
        stride == IF circle_of_fifths THEN 7 ELSE 1
    IN  [n \in 1..(12 * nm) |->
            LET note == Note_each(stride)[((n - 1) \div nm) + 1]
                i == (n - 1) % nm
            IN  <<IF circle_of_fifths /\ i # 0 THEN Note_add(note, -3) ELSE note,
                  Mode_each[i + 1]>>]

is_altered(name) == Contains(name, <<sharp_sym>>) \/ Contains(name, <<flat_sym>>)

is_doubly_altered(name) ==
    Contains(name, Repeat(sharp_sym, 2)) \/ Contains(name, Repeat(flat_sym, 2))

\* the inner loop of spellings for one tonic_base
candidate(scale, tonic_base) ==
    LET whites == whites_from(tonic_base)
        note_names_ == [k \in 1..7 |->
                           name_with_base_white(scale.notes[k], whites[k])]
    IN  [note_names |-> note_names_,
         nb_alt |-> Cardinality({k \in 1..7 : is_altered(note_names_[k])}),
         bad |-> \E k \in 1..7 : is_doubly_altered(note_names_[k])]

\* the outer loop of spellings, from base k on
RECURSIVE spellings_keep_all(_, _, _, _, _)
spellings_keep_all(scale, bases, k, scale_candidates, nb_alt_prev) ==
    IF k > Len(bases) THEN scale_candidates
    ELSE LET c == candidate(scale, bases[k])
         IN  IF ~ c.bad
             THEN spellings_keep_all(scale, bases, k + 1,
                      Append(scale_candidates, c.note_names), c.nb_alt)
             ELSE spellings_keep_all(scale, bases, k + 1,
                      scale_candidates, nb_alt_prev)

RECURSIVE spellings_loop(_, _, _, _, _)
spellings_loop(scale, bases, k, scale_candidates, nb_alt_prev) ==
    IF k > Len(bases) THEN scale_candidates
    ELSE LET c == candidate(scale, bases[k])
         IN  IF ~ c.bad
             THEN spellings_loop(scale, bases, k + 1,
                      Append(IF c.nb_alt < nb_alt_prev THEN <<>>
                             ELSE scale_candidates, c.note_names),
                      c.nb_alt)
             ELSE spellings_loop(scale, bases, k + 1,
                      scale_candidates, nb_alt_prev)

spellings(scale) ==
    spellings_loop(scale, closest_white_keys(scale.tonic), 1, <<>>, 7)

\* the exception spellings ends in, "" if none: iterating over the None of
\* closest_white_keys is a TypeError, white_keys.index of a rank that is not
\* a white key is a ValueError
spellings_error(scale) ==
    LET bases == closest_white_keys(scale.tonic)
    IN  IF bases = <<>> THEN "TypeError"
        ELSE IF is_black(bases[1]) THEN "ValueError"
        ELSE ""

(***************************************************************************)
(* The program: a caller builds one scale (from a rank and an index, at    *)
(* random, or as one-scale.py does from its index argument) or iterates    *)
(* over Scale.each, and queries the scale it holds.                        *)
(***************************************************************************)
VARIABLES
    scale,    \* the current Scale object, NoScale before one is built
    err,      \* the exception that ended the program, "" if none
    call,     \* the last operation called
    hand,     \* the right_hand argument of the last call of fingerings
    fs,       \* the tuple returned by the last call, of fingerings
    cmp,      \* the arguments and the result of the last call of compare
    sp,       \* the list returned by the last call, of spellings
    gen,      \* the generator returned by Scale.each
    yielded,  \* the (tonic rank, mode index) of the scales gen has yielded
    args_index \* one-scale.py's args.index: <<>> for None, <<k>> for int k

vars == <<scale, err, call, hand, fs, cmp, sp, gen, yielded, args_index>>

NoScale == [tonic |-> 0, mode |-> 0, intervals |-> <<>>, notes |-> <<>>]
NoCmp == [self |-> 0, other |-> 0, code |-> 0, reason |-> ""]
NoGen == [state |-> "none", circle_of_fifths |-> FALSE, k |-> 0]

Init ==
    /\ scale = NoScale
    /\ err = ""
    /\ call = ""
    /\ hand = FALSE
    /\ fs = <<>>
    /\ cmp = NoCmp
    /\ sp = <<>>
    /\ gen = NoGen
    /\ yielded = <<>>
    /\ args_index = <<>>

Running == err = ""
HasScale == scale # NoScale

\* Scale(Note(rank), Mode(index)); Mode.__init__ indexes intervals_list
NewScale(rank, index) ==
    /\ Running
    /\ gen.state = "none" /\ ~ HasScale
    /\ call' = "Scale"
    /\ IF InRange(intervals_list, index)
       THEN scale' = Scale(rank, index) /\ err' = ""
       ELSE scale' = scale /\ err' = "IndexError"
    /\ fs' = <<>> /\ cmp' = NoCmp /\ sp' = <<>>
    /\ UNCHANGED <<hand, gen, yielded, args_index>>

\* Scale.random(): Note.random() and Mode.random()
Scale_random ==
    /\ Running
    /\ gen.state = "none" /\ ~ HasScale
    /\ \E rank \in 0..11, index \in 0..(Len(intervals_list) - 1) :
          scale' = Scale(rank, index)
    /\ call' = "Scale"
    /\ fs' = <<>> /\ cmp' = NoCmp /\ sp' = <<>>
    /\ UNCHANGED <<err, hand, gen, yielded, args_index>>

\* Python's truth value of args.index: None and 0 are false
truthy(index) == index # <<>> /\ index[1] # 0

\* one-scale.py: parse the optional index argument, then choose the scale
OneScale(index) ==
    /\ Running
    /\ gen.state = "none" /\ ~ HasScale
    /\ args_index' = index
    /\ IF truthy(index)
       THEN scale' = Scale(index[1] \div 2, index[1] % 2)
       ELSE \E rank \in 0..11, i \in 0..(Len(intervals_list) - 1) :
               scale' = Scale(rank, i)
    /\ call' = "one-scale"
    /\ fs' = <<>> /\ cmp' = NoCmp /\ sp' = <<>>
    /\ UNCHANGED <<err, hand, gen, yielded>>

\* scale.fingerings(right_hand=right_hand)
Fingerings(right_hand) ==
    /\ Running /\ HasScale
    /\ fs' = fingerings(scale, right_hand)
    /\ hand' = right_hand
    /\ call' = "fingerings"
    /\ cmp' = NoCmp /\ sp' = <<>>
    /\ UNCHANGED <<scale, err, gen, yielded, args_index>>

\* fs[a].compare(fs[b]), on two fingerings the last call of fingerings
\* returned (a and b are positions in fs, from 1)
Compare(a, b) ==
    /\ Running /\ HasScale
    /\ call \in {"fingerings", "compare"}
    /\ a \in 1..Len(fs) /\ b \in 1..Len(fs)
    /\ LET r == compare(fs[a], fs[b])
       IN  cmp' = [self |-> a, other |-> b, code |-> r[1], reason |-> r[2]]
    /\ call' = "compare"
    /\ sp' = <<>>
    /\ UNCHANGED <<scale, err, hand, fs, gen, yielded, args_index>>

\* scale.spellings()
Spellings ==
    /\ Running /\ HasScale
    /\ err' = spellings_error(scale)
    /\ sp' = IF err' = "" THEN spellings(scale) ELSE <<>>
    /\ call' = "spellings"
    /\ fs' = <<>> /\ cmp' = NoCmp
    /\ UNCHANGED <<scale, hand, gen, yielded, args_index>>

\* Scale.each(circle_of_fifths)
EachStart(circle_of_fifths) ==
    /\ Running
    /\ gen.state = "none" /\ ~ HasScale
    /\ gen' = [state |-> "active", circle_of_fifths |-> circle_of_fifths,
               k |-> 0]
    /\ call' = "each"
    /\ UNCHANGED <<scale, err, hand, fs, cmp, sp, yielded, args_index>>

\* next(gen) when the generator has a scale left to yield
EachNext ==
    /\ Running
    /\ gen.state = "active"
    /\ LET all == Scale_each(gen.circle_of_fifths)
       IN  /\ gen.k < Len(all)
           /\ scale' = Scale(all[gen.k + 1][1], all[gen.k + 1][2])
    /\ yielded' = Append(yielded, <<scale'.tonic, scale'.mode>>)
    /\ gen' = [gen EXCEPT !.k = @ + 1]
    /\ call' = "next"
    /\ fs' = <<>> /\ cmp' = NoCmp /\ sp' = <<>>
    /\ UNCHANGED <<err, hand, args_index>>

\* next(gen) when the generator is exhausted: the for loop ends
EachStop ==
    /\ Running
    /\ gen.state = "active"
    /\ gen.k >= Len(Scale_each(gen.circle_of_fifths))
    /\ gen' = [gen EXCEPT !.state = "done"]
    /\ call' = "next"
    /\ fs' = <<>> /\ cmp' = NoCmp /\ sp' = <<>>
    /\ UNCHANGED <<scale, err, hand, yielded, args_index>>

Next ==
    \/ \E rank \in (0 - RankMargin)..(11 + RankMargin),
          index \in (0 - IndexMargin)..(1 + IndexMargin) :
          NewScale(rank, index)
    \/ Scale_random
    \/ \E index \in {<<>>} \cup {<<k>> : k \in (0 - 2 * RankMargin)..
                                               (23 + 2 * RankMargin)} :
          OneScale(index)
    \/ \E right_hand \in BOOLEAN : Fingerings(right_hand)
    \/ \E a \in 1..7, b \in 1..7 : Compare(a, b)
    \/ Spellings
    \/ \E circle_of_fifths \in BOOLEAN : EachStart(circle_of_fifths)
    \/ EachNext
    \/ EachStop

Spec == Init /\ [][Next]_vars

(***************************************************************************)
(* Properties                                                              *)
(***************************************************************************)
\* one of the 24 scales: tonic rank 0..11, mode index 0 (major) or 1 (minor)
Is24 == HasScale /\ scale.tonic \in 0..11 /\ scale.mode \in 0..1

\* the notes of the scale as the given hand plays them
hand_notes(right_hand) == symmetry(right_hand, scale.notes)

\* C1: for each of the 24 scales and each hand, fingerings returns between 1
\* and 7 fingerings, and none of them puts finger 1 on a black key.
C1_FingeringsNonEmptyThumbOnWhite ==
    (call = "fingerings" /\ Is24) =>
        /\ Len(fs) >= 1 /\ Len(fs) <= 7
        /\ \A n \in 1..Len(fs) : \A k \in 1..8 :
              fs[n].fingers[k] = 1 => ~ is_black(hand_notes(hand)[k])

\* D-flat major, right hand: six rotations are filtered out, one is left
C1_Witness ==
    /\ call = "fingerings" /\ Is24
    /\ scale.tonic = 1 /\ scale.mode = 0 /\ hand
    /\ Len(fs) = 1

\* C2 as stated: for C major the first right-hand fingering reads "12312341"
\* and the first left-hand fingering reads "14321321".
C2_Original ==
    (call = "fingerings" /\ scale.tonic = 0 /\ scale.mode = 0) =>
        str(fs[1]) = (IF hand THEN "12312341" ELSE "14321321")

\* C2 amended: for C major the first right-hand fingering reads "12312345"
\* and the first left-hand fingering reads "54321321".
C2_CMajorBest ==
    (call = "fingerings" /\ scale.tonic = 0 /\ scale.mode = 0) =>
        str(fs[1]) = (IF hand THEN "12312345" ELSE "54321321")

\* C major, left hand, queried: the reversed string starts with the pinky
C2_Witness ==
    /\ call = "fingerings" /\ scale.tonic = 0 /\ scale.mode = 0 /\ ~ hand
    /\ Len(fs) = 7 /\ fs[1].i = 0 /\ fs[1].fingers[8] = 5

\* C3: the tuple fingerings returns is ordered consistently with compare and
\* stably: no later fingering is strictly preferred to an earlier one, and
\* fingerings that compare as 0 are in increasing order of rotation index.
C3_SortedStable ==
    call = "fingerings" =>
        \A m \in 1..Len(fs), n \in 1..Len(fs) :
            m < n => /\ compare(fs[m], fs[n])[1] >= 0
                     /\ compare(fs[m], fs[n])[1] = 0 => fs[m].i < fs[n].i

\* a result where the sort moved a later rotation first and kept ties in order
C3_Witness ==
    /\ call = "fingerings" /\ Is24
    /\ \E m \in 1..Len(fs), n \in 1..Len(fs) :
          m < n /\ fs[m].i > fs[n].i /\ compare(fs[m], fs[n])[1] > 0
    /\ \E m \in 1..Len(fs), n \in 1..Len(fs) :
          m < n /\ compare(fs[m], fs[n])[1] = 0

\* C4: compare is antisymmetric on the acceptable fingerings of a scale and
\* hand: A.compare(B) has the opposite code of B.compare(A); both reasons are
\* empty when the code is 0 and both name the same criterion otherwise.
C4_CompareAntisymmetric ==
    call = "compare" =>
        LET back == compare(fs[cmp.other], fs[cmp.self])
        IN  /\ cmp.code = - back[1]
            /\ cmp.code = 0 => (cmp.reason = "" /\ back[2] = "")
            /\ cmp.code # 0 => (cmp.reason # "" /\ cmp.reason = back[2])

\* a comparison the last criterion decides against self
C4_Witness ==
    /\ call = "compare" /\ Is24
    /\ cmp.code = -1 /\ cmp.reason = "nb_black_passings"

\* the values of the four criteria for a fingering, in the order of compare
criteria_names ==
    <<"ends_with_pinky", "starts_with_thumb", "has_no_long_passing",
      "nb_black_passings">>
criteria_values(f) ==
    <<int(ends_with_pinky(f)), int(starts_with_thumb(f)),
      int(has_no_long_passing(f)), nb_black_passings(f)>>

\* C5: A.compare(B) decides by the first criterion, in the order
\* ends_with_pinky, starts_with_thumb, has_no_long_passing,
\* nb_black_passings, on which A and B differ: (+1, name) if A's value is
\* greater, (-1, name) if smaller, (0, "") only if all four are equal.
C5_FirstDifferingCriterion ==
    call = "compare" =>
        LET A == criteria_values(fs[cmp.self])
            B == criteria_values(fs[cmp.other])
            differ == {k \in 1..4 : A[k] # B[k]}
        IN  IF differ = {}
            THEN cmp.code = 0 /\ cmp.reason = ""
            ELSE LET k == CHOOSE d \in differ : \A e \in differ : d <= e
                 IN  /\ cmp.reason = criteria_names[k]
                     /\ cmp.code = (IF A[k] > B[k] THEN 1 ELSE -1)

\* has_no_long_passing decides for self although the later criterion
\* nb_black_passings is in favour of other
C5_Witness ==
    /\ call = "compare" /\ Is24
    /\ cmp.code = 1 /\ cmp.reason = "has_no_long_passing"
    /\ nb_black_passings(fs[cmp.self]) < nb_black_passings(fs[cmp.other])

\* some raw rotation of the current scale, for the given hand, passes the
\* thumb on an interval larger than a second
some_long_passing(right_hand) ==
    \E n \in 1..7 :
        ~ has_no_long_passing(ScaleFingering_each(maps(scale, right_hand))[n])

\* C6 as stated: for every harmonic-minor scale and each hand, at least one
\* of the 7 raw rotations has has_no_long_passing() = False.
C6_Original ==
    (Is24 /\ scale.mode = 1) =>
        \A right_hand \in BOOLEAN : some_long_passing(right_hand)

\* the note the hand reaches across the augmented second: the 7th degree for
\* the right hand (ascending), the 6th degree for the left hand (descending)
after_augmented_second(right_hand) ==
    IF right_hand THEN scale.notes[7] ELSE scale.notes[6]

\* C6 amended: for every harmonic-minor scale and each hand, at least one of
\* the 7 raw rotations has has_no_long_passing() = False exactly when the
\* note that hand reaches across the augmented second is a white key.
C6_LongPassingIffWhiteArrival ==
    (Is24 /\ scale.mode = 1) =>
        \A right_hand \in BOOLEAN :
            some_long_passing(right_hand)
                <=> ~ is_black(after_augmented_second(right_hand))

\* C minor: the right hand reaches B (white) from A-flat, the left hand
\* reaches A-flat (black) from B
C6_Witness ==
    /\ Is24 /\ scale.mode = 1 /\ scale.tonic = 0
    /\ some_long_passing(TRUE) /\ ~ some_long_passing(FALSE)

\* C7: a scale is never built from a tonic index outside 0..11 or a mode
\* index outside 0..1; such a construction ends in an error.
C7_OutOfRangeRejected ==
    HasScale => (scale.tonic \in 0..11 /\ scale.mode \in 0..1)

\* the number of altered names in a spelling
nb_altered(note_names_) ==
    Cardinality({k \in 1..Len(note_names_) : is_altered(note_names_[k])})

\* C8: for each of the 24 scales spellings returns one or two candidates of
\* 7 names, built from the bases of closest_white_keys, lower base first;
\* none has a doubly-altered name; each has the least number of altered names
\* among the candidates without doubly-altered names; two are returned only
\* with equal numbers of altered names; a white tonic gets exactly one.
C8_Spellings ==
    (call = "spellings" /\ Is24) =>
        LET bases == closest_white_keys(scale.tonic)
            cands == [k \in 1..Len(bases) |-> candidate(scale, bases[k])]
            good == {k \in 1..Len(bases) : ~ cands[k].bad}
            from(n) == CHOOSE k \in good : cands[k].note_names = sp[n]
        IN  /\ err = ""
            /\ Len(sp) \in {1, 2}
            /\ \A n \in 1..Len(sp) :
                  /\ Len(sp[n]) = 7
                  /\ \A k \in 1..7 : ~ is_doubly_altered(sp[n][k])
                  /\ \E k \in good : cands[k].note_names = sp[n]
                  /\ \A g \in good : nb_altered(sp[n]) <= cands[g].nb_alt
            /\ Len(sp) = 2 =>
                  /\ nb_altered(sp[1]) = nb_altered(sp[2])
                  /\ from(1) < from(2) /\ bases[from(1)] < bases[from(2)]
            /\ ~ is_black(scale.tonic) => Len(sp) = 1

\* D-flat major: the spelling from C (7 sharps) is dropped for the one from
\* D (5 flats)
C8_Witness ==
    /\ call = "spellings" /\ Is24
    /\ scale.tonic = 1 /\ scale.mode = 0
    /\ Len(sp) = 1 /\ sp[1][1] = <<"Re", "b">> /\ nb_altered(sp[1]) = 5

all_pairs == {<<rank, index>> : rank \in 0..11, index \in 0..1}

yielded_set == {yielded[n] : n \in 1..Len(yielded)}

\* C9: Scale.each(False) yields exactly 24 scales, pairwise distinct, that
\* cover the 12 tonics x 2 modes, in chromatic order, each major scale
\* followed by the harmonic minor scale on the same tonic.
C9_EachChromatic ==
    (gen.state = "done" /\ ~ gen.circle_of_fifths) =>
        /\ Len(yielded) = 24
        /\ \A m \in 1..Len(yielded), n \in 1..Len(yielded) :
              m # n => yielded[m] # yielded[n]
        /\ yielded_set = all_pairs
        /\ \A n \in 1..Len(yielded) :
              yielded[n] = <<(n - 1) \div 2, (n - 1) % 2>>

\* the chromatic iteration has ended, on B minor
C9_Witness ==
    /\ gen.state = "done" /\ ~ gen.circle_of_fifths
    /\ scale.tonic = 11 /\ scale.mode = 1

\* C10: Scale.each(True) yields 24 scales by circle of fifths: entries 2k
\* and 2k+1 are (7k mod 12, major) and (7k-3 mod 12, minor), so C major,
\* A minor, G major, E minor start; the pairs are pairwise distinct and are
\* the set Scale.each(False) yields.
C10_EachCircleOfFifths ==
    (gen.state = "done" /\ gen.circle_of_fifths) =>
        /\ Len(yielded) = 24
        /\ \A k \in 0..11 :
              /\ yielded[2 * k + 1] = <<(7 * k) % 12, 0>>
              /\ yielded[2 * k + 2] = <<(7 * k - 3) % 12, 1>>
        /\ SubSeq(yielded, 1, 4) = << <<0, 0>>, <<9, 1>>, <<7, 0>>, <<4, 1>> >>
        /\ \A m \in 1..Len(yielded), n \in 1..Len(yielded) :
              m # n => yielded[m] # yielded[n]
        /\ yielded_set = {Scale_each(FALSE)[n] : n \in 1..24}

\* the iteration by circle of fifths has ended, on D minor
C10_Witness ==
    /\ gen.state = "done" /\ gen.circle_of_fifths
    /\ scale.tonic = 2 /\ scale.mode = 1

\* C11: the one-scale command, given an index k in 0..23, shows the scale
\* with tonic rank k div 2 and mode k mod 2; a random scale is chosen only
\* when no index argument is given.
C11_IndexSelectsScale ==
    (call = "one-scale" /\ args_index # <<>> /\ args_index[1] \in 0..23) =>
        /\ scale.tonic = args_index[1] \div 2
        /\ scale.mode = args_index[1] % 2

Min(x, y) == IF x <= y THEN x ELSE y

\* the convenience score of position i (from 0) of a sequence of 8 notes, as
\* C12 states it
stated_score(notes, i) ==
    LET note == notes[i + 1]
        prev == notes[((i - 1) % 8) + 1]
        d == Abs(note - prev)
    IN  IF is_black(note) THEN -2
        ELSE IF Min(d, 12 - d) > 2 THEN -1
        ELSE IF is_black(prev) THEN 1
        ELSE 0

\* C12: for every scale, hand and position i in 0..7 of the hand-oriented
\* notes, the score of entry i is -2 if note[i] is black, else -1 if the
\* circular distance to note[(i-1) mod 8] exceeds 2, else +1 if that
\* predecessor is black, else 0; so every score is in {-2, -1, 0, 1}.
C12_ScoreOfEachPosition ==
    Is24 =>
        \A right_hand \in BOOLEAN : \A i \in 0..7 :
            LET entry == maps(scale, right_hand).scores[i + 1]
            IN  /\ entry[2] = stated_score(hand_notes(right_hand), i)
                /\ entry[2] \in {-2, -1, 0, 1}

\* E minor, left hand: the four scores occur, the -1 on C reached from
\* D sharp, the +1 on E reached from F sharp, and the 0 on the first E,
\* whose predecessor across the wrap is the last E
C12_Witness ==
    /\ Is24 /\ scale.tonic = 4 /\ scale.mode = 1
    /\ LET sc == maps(scale, FALSE).scores
       IN  /\ {sc[k][2] : k \in 1..8} = {-2, -1, 0, 1}
           /\ sc[3][2] = -1
           /\ sc[8][2] = 1
           /\ sc[1][2] = 0

\* the 7 rotation candidates of the current scale for a hand
candidates(right_hand) == ScaleFingering_each(maps(scale, right_hand))

\* C13: among the 7 rotation candidates of any scale and hand,
\* ends_with_pinky() is true for exactly the rotation with offset 0: it is
\* true if and only if the 7th finger is 4 and the 8th is 5; every other
\* rotation has an 8th finger equal to its first finger.
C13_OnlyBaseRotationEndsWithPinky ==
    HasScale =>
        \A right_hand \in BOOLEAN : \A n \in 1..7 :
            LET f == candidates(right_hand)[n]
            IN  /\ ends_with_pinky(f) <=> (f.i = 0)
                /\ ends_with_pinky(f) <=>
                       (f.fingers[7] = 4 /\ f.fingers[8] = 5)
                /\ f.i # 0 => f.fingers[8] = f.fingers[1]

\* B major, left hand: the rotation that ends with the pinky puts the thumb
\* on a black key, and the fingering returned first does not end with it
C13_Witness ==
    /\ call = "fingerings" /\ ~ hand
    /\ scale.tonic = 11 /\ scale.mode = 0
    /\ ends_with_pinky(candidates(FALSE)[1])
    /\ ~ is_acceptable(candidates(FALSE)[1])
    /\ Len(fs) = 1 /\ ~ ends_with_pinky(fs[1])

====
